---- MODULE Spec2Model ----
(***************************************************************************)
(* The command dispatch server of android_machine_ima.                     *)
(*                                                                         *)
(*   src/orchestrator/app/server/server.py   the Socket.IO server: workers *)
(*       and one controller ("orchestrator") connect, the controller adds  *)
(*       commands by connection-order number, workers report results.      *)
(*   src/orchestrator/server.py              the earlier server: commands  *)
(*       are added over HTTP by device id (LegacySpec, further down).      *)
(*                                                                         *)
(* Every Socket.IO event is handled on a thread of its own, so the atomic  *)
(* steps of the model are the sections the code runs under `lock` (and a   *)
(* handler that takes no lock as one step).  handle_add_command and        *)
(* handle_command_result release the lock before they call                 *)
(* send_next_command, which takes it again: that call is the step          *)
(* send_next_command_step, and `pending` counts the calls not yet run.     *)
(* FailureSpec is Spec with one more outcome of that call: socketio.emit   *)
(* raises.  ConcurrentSpec is the same server at a finer grain: the        *)
(* statements of handle_connect, which takes no lock, are steps of their   *)
(* own, and the lock is held while socketio.emit writes.  ClientSpec is    *)
(* the worker client, src/client/client.py.                                *)
(***************************************************************************)
EXTENDS Integers, Sequences, FiniteSets

\* ------------------------------------------------------------------ bounds
MaxConnections == 2   \* connections opened over a run (request.sid values)
MaxCommands == 2      \* add_command events over a run (uuid4 values drawn)
MaxResults == 1       \* command_result events over a run
MaxEvents == 5        \* connect, add_command and command_result events over a run
MaxMessages == 3      \* messages the worker client reads from its connection

\* ---------------------------------------------------------------- constants
DeviceIds == {"a", "b"}            \* the device_id values workers connect with
TestDevice == "a"                  \* the device test.py's messages name
Orchestrator == "orchestrator"     \* the device_id reserved for the controller
None == 0                          \* Python's None, where a sid is expected
NoCommandId == 0                   \* a message that has no command_id key
BogusCommandId == -1               \* a command_id the server never issued

VARIABLES
    \* ---- the server's module state (app/server/server.py 15-24)
    command_queue,                 \* the global Queue()
    device_status,                 \* dict device_id -> 'ready' | 'busy'
    device_queues,                 \* dict device_id -> Queue of (command_id, command)
    device_sockets,                \* dict device_id -> sid
    device_connection_order,       \* int
    device_connection_order_dict,  \* dict number -> device_id
    orchestrator_connected,        \* bool
    orchestrator,                  \* sid of the controller, or None
    \* ---- the transport (flask_socketio)
    connections,                   \* live connections: sid -> device_id (request.args)
    next_sid,                      \* connections opened so far; the next one is sid next_sid+1
    welcomed,                      \* connections sent 'status: Connected to server': sid -> device_id
    \* ---- handler threads
    pending,                       \* device_id -> send_next_command calls not yet run
    pending_add,                   \* device_id -> those of them made by handle_add_command
    issued,                        \* uuid4 values drawn so far; the next command_id is issued+1
    results_handled,               \* command_result events handled so far
    connecting,                    \* handle_connect calls that have not returned: sid -> [device_id, line]
    lock,                          \* the emissions being written inside `with lock`; {} = lock free
    \* ---- the worker client (client/client.py)
    client,                        \* connect_to_server: position, messages, results, collectors
    \* ---- what the server emitted
    execute_command,               \* sequence of 'execute_command' emissions [sid, device_id, command_id]
    controller_inbox,              \* sequence of the events emitted to the sender of add_command
    send_command_returned,         \* sequence of what orchestrator.py's send_command returned
    \* ---- history
    outstanding,                   \* emissions whose result has not come back
    matched_results                \* command_ids whose result arrived while outstanding and busy

vars == <<command_queue, device_status, device_queues, device_sockets, device_connection_order,
          device_connection_order_dict, orchestrator_connected, orchestrator,
          connections, next_sid, welcomed, pending, pending_add, issued,
          results_handled, execute_command, controller_inbox, send_command_returned,
          outstanding, matched_results, connecting, lock, client>>

\* Everything but the worker client.
server_vars == <<command_queue, device_status, device_queues, device_sockets,
                 device_connection_order, device_connection_order_dict,
                 orchestrator_connected, orchestrator, connections, next_sid, welcomed,
                 pending, pending_add, issued, results_handled, execute_command,
                 controller_inbox, send_command_returned, outstanding, matched_results,
                 connecting, lock>>

\* The connect, add_command and command_result events received so far.
EventsReceived == next_sid + issued + results_handled

\* ------------------------------------------------------------- dictionaries
EmptyDict == [k \in {} |-> None]

\* d[k] = v
SetItem(d, k, v) == [x \in (DOMAIN d) \cup {k} |-> IF x = k THEN v ELSE d[x]]

\* if k in d: del d[k]
DelItem(d, k) == [x \in (DOMAIN d) \ {k} |-> d[x]]

\* ------------------------------------------------------------------- queues
\* A queue that inserts at the head, as a LifoQueue would.
put_front(q, item) == <<item>> \o q

\* queue.Queue(): put appends at the tail, get removes the head.
put(q, item) == Append(q, item)

get_head(q) == Head(q)

get_rest(q) == Tail(q)

\* client.py before connect_to_server is called: nothing received, nothing
\* sent, collectors not started.
ClientStart ==
    [pc |-> "start", argument |-> "", device_id |-> "", connected_as |-> "",
     read |-> 0, received |-> <<>>, sent |-> <<>>, waited |-> 0, started |-> 0,
     stopped |-> 0]

Init ==
    /\ command_queue = <<>>
    /\ device_status = EmptyDict
    /\ device_queues = EmptyDict
    /\ device_sockets = EmptyDict
    /\ device_connection_order = 0
    /\ device_connection_order_dict = EmptyDict
    /\ orchestrator_connected = FALSE
    /\ orchestrator = None
    /\ connections = EmptyDict
    /\ next_sid = 0
    /\ welcomed = EmptyDict
    /\ pending = [d \in DeviceIds |-> 0]
    /\ pending_add = [d \in DeviceIds |-> 0]
    /\ issued = 0
    /\ results_handled = 0
    /\ execute_command = <<>>
    /\ controller_inbox = <<>>
    /\ send_command_returned = <<>>
    /\ outstanding = {}
    /\ matched_results = {}
    /\ connecting = EmptyDict
    /\ lock = {}
    /\ client = ClientStart

\* ------------------------------------------------------ handle_disconnect
\* A disconnect that would leave the device's queue in place.
disconnect_body_keeps_queue(device_id) ==
    /\ device_status' = DelItem(device_status, device_id)
    /\ device_sockets' = DelItem(device_sockets, device_id)
    /\ IF device_id = Orchestrator
       THEN /\ orchestrator_connected' = FALSE
            /\ orchestrator' = None
       ELSE UNCHANGED <<orchestrator_connected, orchestrator>>
    /\ UNCHANGED <<device_queues, device_connection_order, device_connection_order_dict>>

\* The body of handle_disconnect for the connection's device_id.
disconnect_body(device_id) ==
    /\ device_status' = DelItem(device_status, device_id)
    /\ device_queues' = DelItem(device_queues, device_id)
    /\ device_sockets' = DelItem(device_sockets, device_id)
    /\ IF device_id = Orchestrator
       THEN /\ orchestrator_connected' = FALSE
            /\ orchestrator' = None
       ELSE UNCHANGED <<orchestrator_connected, orchestrator>>
    /\ UNCHANGED <<device_connection_order, device_connection_order_dict>>

\* A live connection closes: the 'disconnect' event of sid.
handle_disconnect(sid) ==
    /\ sid \in DOMAIN connections
    /\ disconnect_body(connections[sid])
    /\ connections' = DelItem(connections, sid)
    /\ outstanding' = {o \in outstanding : o.sid # sid}
    /\ UNCHANGED <<command_queue, next_sid, welcomed, pending, pending_add, issued, results_handled,
                   execute_command, controller_inbox, matched_results>>
    /\ UNCHANGED <<send_command_returned, connecting, lock, client>>

\* --------------------------------------------------------- handle_connect
\* A registration that would mark the new worker 'busy'.
register_device_busy(device_id, sid) ==
    /\ device_status' = SetItem(device_status, device_id, "busy")
    /\ device_sockets' = SetItem(device_sockets, device_id, sid)
    /\ device_connection_order' = device_connection_order + 1
    /\ device_connection_order_dict' =
           SetItem(device_connection_order_dict, device_connection_order + 1, device_id)
    /\ UNCHANGED <<device_queues, orchestrator_connected, orchestrator>>

\* The else branch: a worker registers.
register_device(device_id, sid) ==
    /\ device_status' = SetItem(device_status, device_id, "ready")
    /\ device_sockets' = SetItem(device_sockets, device_id, sid)
    /\ device_connection_order' = device_connection_order + 1
    /\ device_connection_order_dict' =
           SetItem(device_connection_order_dict, device_connection_order + 1, device_id)
    /\ UNCHANGED <<device_queues, orchestrator_connected, orchestrator>>

\* A new connection with ?device_id=...: the 'connect' event.  A second
\* controller is refused by disconnect(), which runs handle_disconnect for the
\* refused connection before handle_connect returns.
handle_connect(device_id) ==
    /\ next_sid < MaxConnections
    /\ EventsReceived < MaxEvents
    /\ next_sid' = next_sid + 1
    /\ LET sid == next_sid + 1 IN
       IF device_id = Orchestrator /\ ~orchestrator_connected
       THEN /\ orchestrator_connected' = TRUE
            /\ orchestrator' = sid
            /\ welcomed' = SetItem(welcomed, sid, device_id)
            /\ connections' = SetItem(connections, sid, device_id)
            /\ UNCHANGED <<device_status, device_queues, device_sockets,
                           device_connection_order, device_connection_order_dict>>
       ELSE IF device_id = Orchestrator /\ orchestrator_connected
       THEN /\ disconnect_body(device_id)
            /\ UNCHANGED <<welcomed, connections>>
       ELSE /\ register_device(device_id, sid)
            /\ welcomed' = SetItem(welcomed, sid, device_id)
            /\ connections' = SetItem(connections, sid, device_id)
    /\ UNCHANGED <<command_queue, pending, pending_add, issued, results_handled, execute_command,
                   controller_inbox, outstanding, matched_results>>
    /\ UNCHANGED <<send_command_returned, connecting, lock, client>>

\* ----------------------------------------------------- handle_add_command
\* orchestrator.py 23-40: what send_command returns for the response that
\* sio.call('add_command', ...) gave it.
send_command(response) ==
    IF response = None
    THEN None
    ELSE IF response.status = "Command added"
         THEN response.command_id
         ELSE None

\* What sio.call receives: the value handle_add_command returns.  The handler
\* has no return statement on any path (its answers are emitted as
\* 'command_status' events), so the acknowledgement carries nothing.
add_command_response == None

\* Lines 67-76 and 78-80: draw the command_id, look the number up, enqueue,
\* acknowledge; the call of send_next_command (line 77) is left pending.  The
\* handler does not look at who sent the event; the sender is send_command of
\* orchestrator.py, the only code that emits add_command.
handle_add_command(number) ==
    /\ issued < MaxCommands
    /\ EventsReceived < MaxEvents
    /\ issued' = issued + 1
    /\ LET command_id == issued + 1
           command == [number |-> number] IN
       IF number \in DOMAIN device_connection_order_dict
       THEN LET device_id == device_connection_order_dict[number]
                q == IF device_id \in DOMAIN device_queues
                     THEN device_queues[device_id] ELSE <<>> IN
            /\ device_queues' = SetItem(device_queues, device_id, put(q, <<command_id, command>>))
            /\ controller_inbox' = Append(controller_inbox,
                   [event |-> "command_status", status |-> "Command added",
                    command_id |-> command_id])
            /\ pending' = [pending EXCEPT ![device_id] = @ + 1]
            /\ pending_add' = [pending_add EXCEPT ![device_id] = @ + 1]
       ELSE /\ controller_inbox' = Append(controller_inbox,
                   [event |-> "command_status", status |-> "Failed to add command",
                    command_id |-> NoCommandId])
            /\ UNCHANGED <<device_queues, pending, pending_add>>
    /\ send_command_returned' = Append(send_command_returned, send_command(add_command_response))
    /\ UNCHANGED <<connecting, lock, client>>
    /\ UNCHANGED <<command_queue, device_status, device_sockets, device_connection_order,
                   device_connection_order_dict, orchestrator_connected, orchestrator,
                   connections, next_sid, welcomed, results_handled, execute_command,
                   outstanding, matched_results>>

\* ------------------------------------------------------ send_next_command
\* Line 110: the device has a queue and it is not empty.
can_take(device_id) ==
    /\ device_id \in DOMAIN device_queues
    /\ device_queues[device_id] # <<>>

\* A send_next_command that would emit and leave the status as it is.
send_next_command_stays_ready(device_id) ==
    IF can_take(device_id)
    THEN LET item == get_head(device_queues[device_id]) IN
         /\ device_queues' = [device_queues EXCEPT ![device_id] = get_rest(@)]
         /\ IF device_id \in DOMAIN device_sockets
            THEN LET e == [sid |-> device_sockets[device_id], device_id |-> device_id,
                           command_id |-> item[1]] IN
                 /\ execute_command' = Append(execute_command, e)
                 /\ outstanding' = outstanding \cup {e}
                 /\ UNCHANGED device_status
            ELSE UNCHANGED <<execute_command, device_status, outstanding>>
    ELSE UNCHANGED <<device_queues, execute_command, device_status, outstanding>>

\* The body of send_next_command, under the lock.
send_next_command(device_id) ==
    IF can_take(device_id)
    THEN LET item == get_head(device_queues[device_id]) IN
         /\ device_queues' = [device_queues EXCEPT ![device_id] = get_rest(@)]
         /\ IF device_id \in DOMAIN device_sockets
            THEN LET e == [sid |-> device_sockets[device_id], device_id |-> device_id,
                           command_id |-> item[1]] IN
                 /\ execute_command' = Append(execute_command, e)
                 /\ device_status' = SetItem(device_status, device_id, "busy")
                 /\ outstanding' = outstanding \cup {e}
            ELSE UNCHANGED <<execute_command, device_status, outstanding>>
    ELSE UNCHANGED <<device_queues, execute_command, device_status, outstanding>>

\* The handlers that have a call of send_next_command(device_id) not yet run.
Callers(device_id) ==
    (IF pending_add[device_id] > 0 THEN {"handle_add_command"} ELSE {})
        \cup (IF pending[device_id] > pending_add[device_id]
              THEN {"handle_command_result"} ELSE {})

\* The caller's call is no longer pending.
call_taken(device_id, caller) ==
    /\ pending' = [pending EXCEPT ![device_id] = @ - 1]
    /\ pending_add' = IF caller = "handle_add_command"
                      THEN [pending_add EXCEPT ![device_id] = @ - 1]
                      ELSE pending_add

\* A pending call of send_next_command runs and returns.
send_next_command_step(device_id) ==
    \E caller \in Callers(device_id) :
        /\ call_taken(device_id, caller)
        /\ send_next_command(device_id)
        /\ UNCHANGED <<command_queue, device_sockets, device_connection_order,
                       device_connection_order_dict, orchestrator_connected, orchestrator,
                       connections, next_sid, welcomed, issued, results_handled,
                       controller_inbox, matched_results>>
        /\ UNCHANGED <<send_command_returned, connecting, lock, client>>

\* A pending call of send_next_command runs and socketio.emit (line 114)
\* raises: the command has been taken from the queue (line 111), line 122 is
\* not reached, the lock is released and the exception reaches the caller's
\* except clause: handle_add_command answers "Failed to add command" (line 80),
\* handle_command_result logs (line 106).
send_next_command_raises(device_id) ==
    \E caller \in Callers(device_id) :
        /\ can_take(device_id)
        /\ device_id \in DOMAIN device_sockets
        /\ call_taken(device_id, caller)
        /\ device_queues' = [device_queues EXCEPT ![device_id] = get_rest(@)]
        /\ controller_inbox' =
               IF caller = "handle_add_command"
               THEN Append(controller_inbox,
                        [event |-> "command_status", status |-> "Failed to add command",
                         command_id |-> NoCommandId])
               ELSE controller_inbox
        /\ UNCHANGED <<command_queue, device_status, device_sockets, device_connection_order,
                       device_connection_order_dict, orchestrator_connected, orchestrator,
                       connections, next_sid, welcomed, issued, results_handled,
                       execute_command, outstanding, matched_results>>
        /\ UNCHANGED <<send_command_returned, connecting, lock, client>>

\* -------------------------------------------------- handle_command_result
\* Lines 84-99 and 101-106: a result message {device_id, command_id, result};
\* a message without command_id raises KeyError before anything is changed.
\* The call of send_next_command (line 100) is left pending.
handle_command_result(device_id, command_id) ==
    /\ results_handled < MaxResults
    /\ EventsReceived < MaxEvents
    /\ results_handled' = results_handled + 1
    /\ IF command_id = NoCommandId
       THEN UNCHANGED <<device_status, pending, outstanding, matched_results>>
       ELSE /\ device_status' = SetItem(device_status, device_id, "ready")
            /\ pending' = [pending EXCEPT ![device_id] = @ + 1]
            /\ outstanding' = {o \in outstanding :
                                 ~(o.device_id = device_id /\ o.command_id = command_id)}
            /\ matched_results' =
                 IF /\ device_id \in DOMAIN device_status
                    /\ device_status[device_id] = "busy"
                    /\ \E o \in outstanding : o.device_id = device_id /\ o.command_id = command_id
                 THEN matched_results \cup {command_id}
                 ELSE matched_results
    /\ UNCHANGED <<command_queue, device_queues, device_sockets, device_connection_order,
                   device_connection_order_dict, orchestrator_connected, orchestrator,
                   connections, next_sid, welcomed, pending_add, issued, execute_command,
                   controller_inbox>>
    /\ UNCHANGED <<send_command_returned, connecting, lock, client>>

\* The result messages that may arrive: for any device, a command_id the server
\* has emitted or one it never issued; and the message of test.py, which has
\* no command_id.
EmittedIds == {execute_command[i].command_id : i \in DOMAIN execute_command}

ResultMessages ==
    {[device_id |-> d, command_id |-> c] : d \in DeviceIds, c \in EmittedIds \cup {BogusCommandId}}
        \cup {[device_id |-> TestDevice, command_id |-> NoCommandId]}

\* The numbers an add_command may carry: every number assigned so far, and the
\* first one not assigned yet.
Numbers == 1..(device_connection_order + 1)

Next ==
    \/ \E device_id \in DeviceIds : send_next_command_step(device_id)
    \/ \E device_id \in DeviceIds \cup {Orchestrator} : handle_connect(device_id)
    \/ \E sid \in DOMAIN connections : handle_disconnect(sid)
    \/ \E number \in Numbers : handle_add_command(number)
    \/ \E data \in ResultMessages : handle_command_result(data.device_id, data.command_id)

Spec == Init /\ [][Next]_vars

\* The same server when a write to a worker's connection may fail.
FailureNext ==
    \/ \E device_id \in DeviceIds : send_next_command_raises(device_id)
    \/ Next

FailureSpec == Init /\ [][FailureNext]_vars

(***************************************************************************)
(* The earlier server, src/orchestrator/server.py.  It keeps device_status *)
(* and device_queues only; commands are added by POST /add_command with a  *)
(* device_id, and nothing is dispatched on submission.                     *)
(***************************************************************************)
Broadcast == None           \* socketio.emit without `to` (to=None): every client receives it

legacy_unused == <<command_queue, device_sockets, device_connection_order,
                   device_connection_order_dict, orchestrator_connected, orchestrator>>

\* POST /add_command {device_id, command}: lines 26-35.
legacy_add_command(device_id) ==
    /\ issued < MaxCommands
    /\ EventsReceived < MaxEvents
    /\ issued' = issued + 1
    /\ LET command_id == issued + 1
           command == [device_id |-> device_id]
           q == IF device_id \in DOMAIN device_queues
                THEN device_queues[device_id] ELSE <<>> IN
       /\ device_queues' = SetItem(device_queues, device_id, put(q, <<command_id, command>>))
       /\ controller_inbox' = Append(controller_inbox,
              [event |-> "200", status |-> "Command added to queue",
               command_id |-> command_id])
    /\ UNCHANGED <<device_status, connections, next_sid, welcomed, pending, pending_add,
                   results_handled, execute_command, outstanding, matched_results>>
    /\ UNCHANGED legacy_unused
    /\ UNCHANGED <<send_command_returned, connecting, lock, client>>

\* The 'connect' event: lines 42-46.
legacy_handle_connect(device_id) ==
    /\ next_sid < MaxConnections
    /\ EventsReceived < MaxEvents
    /\ next_sid' = next_sid + 1
    /\ device_status' = SetItem(device_status, device_id, "ready")
    /\ welcomed' = SetItem(welcomed, next_sid + 1, device_id)
    /\ connections' = SetItem(connections, next_sid + 1, device_id)
    /\ UNCHANGED <<device_queues, pending, pending_add, issued, results_handled, execute_command,
                   controller_inbox, outstanding, matched_results>>
    /\ UNCHANGED legacy_unused
    /\ UNCHANGED <<send_command_returned, connecting, lock, client>>

\* The 'disconnect' event of a live connection: lines 50-56.
legacy_handle_disconnect(sid) ==
    /\ sid \in DOMAIN connections
    /\ device_status' = DelItem(device_status, connections[sid])
    /\ device_queues' = DelItem(device_queues, connections[sid])
    /\ connections' = DelItem(connections, sid)
    /\ outstanding' = {o \in outstanding : o.device_id # connections[sid]}
    /\ UNCHANGED <<next_sid, welcomed, pending, pending_add, issued, results_handled,
                   execute_command, controller_inbox, matched_results>>
    /\ UNCHANGED legacy_unused
    /\ UNCHANGED <<send_command_returned, connecting, lock, client>>

\* The 'command_result' event: lines 60-65; the call of send_next_command
\* (line 66) is left pending.  A message without command_id raises KeyError.
legacy_handle_command_result(device_id, command_id) ==
    /\ results_handled < MaxResults
    /\ EventsReceived < MaxEvents
    /\ results_handled' = results_handled + 1
    /\ IF command_id = NoCommandId
       THEN UNCHANGED <<device_status, pending, outstanding, matched_results>>
       ELSE /\ device_status' = SetItem(device_status, device_id, "ready")
            /\ pending' = [pending EXCEPT ![device_id] = @ + 1]
            /\ outstanding' = {o \in outstanding :
                                 ~(o.device_id = device_id /\ o.command_id = command_id)}
            /\ matched_results' =
                 IF /\ device_id \in DOMAIN device_status
                    /\ device_status[device_id] = "busy"
                    /\ \E o \in outstanding : o.device_id = device_id /\ o.command_id = command_id
                 THEN matched_results \cup {command_id}
                 ELSE matched_results
    /\ UNCHANGED <<device_queues, connections, next_sid, welcomed, pending_add, issued,
                   execute_command, controller_inbox>>
    /\ UNCHANGED legacy_unused
    /\ UNCHANGED <<send_command_returned, connecting, lock, client>>

\* A pending call of send_next_command runs: lines 69-74.
legacy_send_next_command(device_id) ==
    /\ pending[device_id] > 0
    /\ pending' = [pending EXCEPT ![device_id] = @ - 1]
    /\ IF can_take(device_id)
       THEN LET item == get_head(device_queues[device_id])
                e == [sid |-> Broadcast, device_id |-> device_id, command_id |-> item[1]] IN
            /\ device_queues' = [device_queues EXCEPT ![device_id] = get_rest(@)]
            /\ execute_command' = Append(execute_command, e)
            /\ device_status' = SetItem(device_status, device_id, "busy")
            /\ outstanding' = outstanding \cup {e}
       ELSE UNCHANGED <<device_queues, execute_command, device_status, outstanding>>
    /\ UNCHANGED <<connections, next_sid, welcomed, pending_add, issued, results_handled,
                   controller_inbox, matched_results>>
    /\ UNCHANGED legacy_unused
    /\ UNCHANGED <<send_command_returned, connecting, lock, client>>

LegacyNext ==
    \/ \E device_id \in DeviceIds : legacy_send_next_command(device_id)
    \/ \E device_id \in DeviceIds : legacy_add_command(device_id)
    \/ \E device_id \in DeviceIds : legacy_handle_connect(device_id)
    \/ \E sid \in DOMAIN connections : legacy_handle_disconnect(sid)
    \/ \E data \in ResultMessages :
           legacy_handle_command_result(data.device_id, data.command_id)

LegacySpec == Init /\ [][LegacyNext]_vars

(***************************************************************************)
(* The Socket.IO server at the grain of its threads.  handle_connect takes *)
(* no lock, so its statements (lines 42-43, 44, 45-47) are steps that other*)
(* threads interleave with; send_next_command holds `lock` from line 109   *)
(* until socketio.emit has written the command (lines 114-122), and every  *)
(* other locked section waits for it.                                      *)
(***************************************************************************)
lock_free == lock = {}

\* handle_connect, worker branch, lines 33 and 42-43.
connect_register(device_id) ==
    /\ next_sid < MaxConnections
    /\ EventsReceived < MaxEvents
    /\ next_sid' = next_sid + 1
    /\ device_status' = SetItem(device_status, device_id, "ready")
    /\ device_sockets' = SetItem(device_sockets, device_id, next_sid + 1)
    /\ connecting' = SetItem(connecting, next_sid + 1, [device_id |-> device_id, line |-> 44])
    /\ UNCHANGED <<command_queue, device_queues, device_connection_order,
                   device_connection_order_dict, orchestrator_connected, orchestrator,
                   connections, welcomed, pending, pending_add, issued, results_handled,
                   execute_command, controller_inbox, send_command_returned, outstanding,
                   matched_results, lock, client>>

\* handle_connect line 44: device_connection_order += 1.
connect_count(sid) ==
    /\ sid \in DOMAIN connecting
    /\ connecting[sid].line = 44
    /\ device_connection_order' = device_connection_order + 1
    /\ connecting' = [connecting EXCEPT ![sid].line = 45]
    /\ UNCHANGED <<command_queue, device_status, device_queues, device_sockets,
                   device_connection_order_dict, orchestrator_connected, orchestrator,
                   connections, next_sid, welcomed, pending, pending_add, issued,
                   results_handled, execute_command, controller_inbox,
                   send_command_returned, outstanding, matched_results, lock, client>>

\* handle_connect lines 45-47: the number read now is stored for the device,
\* the client is told 'Connected to server' and the handler returns.
connect_store(sid) ==
    /\ sid \in DOMAIN connecting
    /\ connecting[sid].line = 45
    /\ device_connection_order_dict' =
           SetItem(device_connection_order_dict, device_connection_order,
                   connecting[sid].device_id)
    /\ welcomed' = SetItem(welcomed, sid, connecting[sid].device_id)
    /\ connections' = SetItem(connections, sid, connecting[sid].device_id)
    /\ connecting' = DelItem(connecting, sid)
    /\ UNCHANGED <<command_queue, device_status, device_queues, device_sockets,
                   device_connection_order, orchestrator_connected, orchestrator,
                   next_sid, pending, pending_add, issued, results_handled,
                   execute_command, controller_inbox, send_command_returned, outstanding,
                   matched_results, lock, client>>

\* send_next_command has something to write: line 110 and line 112 both true.
has_command_to_emit(device_id) ==
    /\ can_take(device_id)
    /\ device_id \in DOMAIN device_sockets

\* send_next_command lines 109-114: the lock is taken, the command leaves the
\* queue and socketio.emit starts writing it.
emit_begin(device_id) ==
    \E caller \in Callers(device_id) :
        /\ lock_free
        /\ has_command_to_emit(device_id)
        /\ call_taken(device_id, caller)
        /\ device_queues' = [device_queues EXCEPT ![device_id] = get_rest(@)]
        /\ lock' = {[sid |-> device_sockets[device_id], device_id |-> device_id,
                     command_id |-> get_head(device_queues[device_id])[1]]}
        /\ UNCHANGED <<command_queue, device_status, device_sockets, device_connection_order,
                       device_connection_order_dict, orchestrator_connected, orchestrator,
                       connections, next_sid, welcomed, issued, results_handled,
                       execute_command, controller_inbox, send_command_returned,
                       outstanding, matched_results, connecting, client>>

\* send_next_command lines 114-123: the write is done, the device is marked
\* 'busy' and the lock is released.
emit_end ==
    \E e \in lock :
        /\ execute_command' = Append(execute_command, e)
        /\ device_status' = SetItem(device_status, e.device_id, "busy")
        /\ outstanding' = outstanding \cup {e}
        /\ lock' = {}
        /\ UNCHANGED <<command_queue, device_queues, device_sockets, device_connection_order,
                       device_connection_order_dict, orchestrator_connected, orchestrator,
                       connections, next_sid, welcomed, pending, pending_add, issued,
                       results_handled, controller_inbox, send_command_returned,
                       matched_results, connecting, client>>

\* A call of send_next_command gets the lock and runs up to the write it has
\* to make, or to its end if it has none to make.
concurrent_send_next_command(device_id) ==
    \/ emit_begin(device_id)
    \/ /\ lock_free
       /\ ~has_command_to_emit(device_id)
       /\ send_next_command_step(device_id)

ConcurrentNext ==
    \/ \E device_id \in DeviceIds : concurrent_send_next_command(device_id)
    \/ emit_end
    \/ \E device_id \in DeviceIds : connect_register(device_id)
    \/ \E sid \in DOMAIN connecting : connect_count(sid)
    \/ \E sid \in DOMAIN connecting : connect_store(sid)
    \/ handle_connect(Orchestrator)
    \/ \E sid \in DOMAIN connections : lock_free /\ handle_disconnect(sid)
    \/ \E number \in Numbers : lock_free /\ handle_add_command(number)
    \/ \E data \in ResultMessages :
           /\ lock_free \/ data.command_id = NoCommandId
           /\ handle_command_result(data.device_id, data.command_id)

ConcurrentSpec == Init /\ [][ConcurrentNext]_vars

(***************************************************************************)
(* The worker client, src/client/client.py.  client.pc is the statement    *)
(* connect_to_server is at; client.received lists the command_id of every  *)
(* execute_command message read, client.sent the command_result messages   *)
(* written, client.waited counts the completed sleeps and client.stopped   *)
(* the calls of stop_collectors.                                           *)
(***************************************************************************)
LiteralDeviceId == "{device_id}"

\* What the server can put on the connection: an execute_command for one of
\* its command ids, an execute_command without a command_id, any other event.
ClientMessages ==
    {[event |-> "execute_command", command_id |-> n] : n \in 1..MaxCommands}
        \cup {[event |-> "execute_command", command_id |-> NoCommandId],
              [event |-> "status", command_id |-> NoCommandId]}

client_only(next) ==
    /\ client' = next
    /\ UNCHANGED server_vars

\* __main__: connect_to_server(device_id, ...) is called.
client_main(device_id) ==
    /\ client.pc = "start"
    /\ client_only([client EXCEPT !.pc = "try", !.argument = device_id,
                                  !.device_id = device_id])

\* Lines 18-23: the collectors are started and device_id is assigned the
\* string "{device_id}".
client_start_collectors ==
    /\ client.pc = "try"
    /\ client_only([client EXCEPT !.pc = "connect", !.started = 1,
                                  !.device_id = LiteralDeviceId])

\* Lines 26-28: the uri is built from device_id, the connection opens and
\* "ready" is sent.
client_connect ==
    /\ client.pc = "connect"
    /\ client_only([client EXCEPT !.pc = "recv", !.connected_as = client.device_id])

\* Lines 31-38: a message is read; an execute_command is taken apart and
\* executed (execute_command catches whatever the command raises), one
\* without command_id raises KeyError at line 36, any other event is skipped.
client_recv(message) ==
    /\ client.pc = "recv"
    /\ client.read < MaxMessages
    /\ client_only(
         IF message.event = "execute_command"
         THEN [client EXCEPT !.read = @ + 1,
                             !.received = Append(@, message.command_id),
                             !.pc = IF message.command_id = NoCommandId
                                    THEN "finally" ELSE "send"]
         ELSE [client EXCEPT !.read = @ + 1])

\* The command_result of lines 40-47 that carries the device_id given to
\* connect_to_server.
command_result_of_argument(c) ==
    [device_id |-> c.argument, command_id |-> c.received[Len(c.received)]]

\* Lines 40-47: the command_result for the command just executed.
command_result(c) ==
    [device_id |-> c.device_id, command_id |-> c.received[Len(c.received)]]

client_send ==
    /\ client.pc = "send"
    /\ client_only([client EXCEPT !.pc = "wait",
                                  !.sent = Append(@, command_result(client))])

\* Lines 50-51: sleep for the command's wait_time, then back to line 31.
client_wait ==
    /\ client.pc = "wait"
    /\ client_only([client EXCEPT !.pc = "recv", !.waited = @ + 1])

\* Lines 53-56: any statement of the try block raises (the connection is
\* closed, a message is not JSON, wait_time is not a number, ...).
client_raise ==
    /\ client.pc \in {"try", "connect", "recv", "send", "wait"}
    /\ client_only([client EXCEPT !.pc = "finally"])

\* Lines 57-58 and 99-101: stop_collectors.
client_finally ==
    /\ client.pc = "finally"
    /\ client_only([client EXCEPT !.pc = "done", !.stopped = @ + 1])

ClientNext ==
    \/ \E device_id \in DeviceIds : client_main(device_id)
    \/ client_start_collectors
    \/ client_connect
    \/ \E message \in ClientMessages : client_recv(message)
    \/ client_send
    \/ client_wait
    \/ client_raise
    \/ client_finally

ClientSpec == Init /\ [][ClientNext]_vars

(***************************************************************************)
(* Properties.                                                             *)
(***************************************************************************)

\* The device ids that have ever registered as workers.
EverConnected == {welcomed[s] : s \in DOMAIN welcomed} \ {Orchestrator}

\* d has a registry entry whose connection is live.
CurrentlyConnected(d) ==
    /\ d \in DOMAIN device_sockets
    /\ device_sockets[d] \in DOMAIN connections

\* The result message names the command outstanding for its device's session.
MatchesOutstanding(data) ==
    /\ data.device_id \in DOMAIN device_sockets
    /\ \E o \in outstanding : /\ o.device_id = data.device_id
                              /\ o.command_id = data.command_id
                              /\ o.sid = device_sockets[data.device_id]

\* command_ids are drawn in the step that enqueues, so c1 < c2 says that c1
\* was accepted before c2.
SubmittedBefore(c1, c2) == c1 < c2

\* C1: for every worker session, at most one delivered command awaits its
\* result at any time (no second execute_command before the result of the
\* first or the disconnect).
C1_AtMostOneOutstanding ==
    \A s \in DOMAIN connections :
        Cardinality({o \in outstanding : o.sid = s}) <= 1

\* C2: the commands delivered to one device are delivered in the order in
\* which they were accepted.
C2_DeliveredInSubmissionOrder ==
    \A i, j \in DOMAIN execute_command :
        (i < j /\ execute_command[i].device_id = execute_command[j].device_id)
            => SubmittedBefore(execute_command[i].command_id, execute_command[j].command_id)

\* Two commands have been delivered to the same session of one device.
C2_Witness ==
    \E i, j \in DOMAIN execute_command :
        /\ i < j
        /\ execute_command[i].device_id = execute_command[j].device_id
        /\ execute_command[i].sid = execute_command[j].sid

\* C3: a command_result for a known worker whose command_id is not that of the
\* worker's outstanding command changes neither the worker's status nor its
\* queue.
C3_UnmatchedResultDiscarded ==
    [][\A data \in ResultMessages :
         ( /\ handle_command_result(data.device_id, data.command_id)
           /\ data.device_id \in DOMAIN device_status
           /\ ~MatchesOutstanding(data) )
         => /\ device_status' = device_status
            /\ device_queues' = device_queues]_vars

\* C4: when a worker that had disconnected connects again under the same id,
\* it is 'ready' and has no queued command at that moment.
C4_ReconnectStartsEmpty ==
    [][\A d \in DeviceIds :
         ( /\ handle_connect(d)
           /\ d \in EverConnected
           /\ d \notin DOMAIN device_sockets )
         => /\ device_status'[d] = "ready"
            /\ (d \notin DOMAIN device_queues' \/ device_queues'[d] = <<>>)]_vars

\* C5: no queue exists for a device id that has never connected.
C5_NoQueueForNeverConnected ==
    \A d \in DOMAIN device_queues : d \in EverConnected

\* C6: an add_command whose number names a worker that has disconnected is
\* answered "Failed to add command" and leaves the queues as they were.
C6_AddForDisconnectedFails ==
    [][\A number \in Numbers :
         ( /\ handle_add_command(number)
           /\ number \in DOMAIN device_connection_order_dict
           /\ device_connection_order_dict[number] \notin DOMAIN device_status )
         => /\ device_queues' = device_queues
            /\ controller_inbox'[Len(controller_inbox')].status = "Failed to add command"]_vars

\* C7: a connect carrying the id of a currently connected worker leaves that
\* worker's sid, status, queue and numbers as they were.
C7_DuplicateConnectRejected ==
    [][\A d \in DeviceIds :
         (handle_connect(d) /\ CurrentlyConnected(d))
         => /\ device_sockets' = device_sockets
            /\ device_status' = device_status
            /\ device_queues' = device_queues
            /\ device_connection_order_dict' = device_connection_order_dict]_vars

\* C8: while a controller connection is live it is the registered controller,
\* and it is the only live controller connection.
C8_SingleController ==
    \A s \in DOMAIN connections :
        connections[s] = Orchestrator => (orchestrator_connected /\ orchestrator = s)

\* C9: a connect of a worker id that has connected before assigns no new
\* number.
C9_RankOnlyAtFirstConnect ==
    [][\A d \in DeviceIds :
         ( /\ handle_connect(d)
           /\ d \in EverConnected
           /\ ~CurrentlyConnected(d) )
         => /\ device_connection_order' = device_connection_order
            /\ device_connection_order_dict' = device_connection_order_dict]_vars

\* C10: once the handler of a matching result has finished, exactly one
\* "command settled" event carrying that command_id has been emitted to the
\* controller.
C10_SettledEventPushed ==
    \A c \in matched_results :
        (\A d \in DeviceIds : pending[d] = 0)
            => Cardinality({i \in DOMAIN controller_inbox :
                              /\ controller_inbox[i].event = "command_settled"
                              /\ controller_inbox[i].command_id = c}) = 1

\* The result message names a command that was emitted to an earlier
\* connection of its device, which has closed; the device is registered again
\* with another connection.
FromEarlierSession(data) ==
    /\ data.device_id \in DOMAIN device_sockets
    /\ \E i \in DOMAIN execute_command :
           /\ execute_command[i].device_id = data.device_id
           /\ execute_command[i].command_id = data.command_id
           /\ execute_command[i].sid # device_sockets[data.device_id]
           /\ execute_command[i].sid \notin DOMAIN connections

\* C11: a command_result naming a device that is not registered creates no
\* status, socket or queue entry, changes no other device's entries and leads
\* to no call of send_next_command.
C11_ResultForUnknownDiscarded ==
    [][\A data \in ResultMessages :
         ( /\ handle_command_result(data.device_id, data.command_id)
           /\ data.device_id \notin DOMAIN device_sockets )
         => /\ device_status' = device_status
            /\ device_sockets' = device_sockets
            /\ device_queues' = device_queues
            /\ pending' = pending]_vars

\* C12: a result for a command emitted to an earlier session of a device that
\* has since reconnected leaves the new session's status and outstanding
\* command as they were and leads to no call of send_next_command.
C12_StaleSessionResultDropped ==
    [][\A data \in ResultMessages :
         ( /\ handle_command_result(data.device_id, data.command_id)
           /\ FromEarlierSession(data) )
         => /\ device_status' = device_status
            /\ outstanding' = outstanding
            /\ pending' = pending]_vars

\* C13: when the write of a command to device d's connection fails, d's
\* status, socket and queue entries are removed as by handle_disconnect, the
\* command is not emitted and is in no queue afterwards, and the entries of
\* the other devices are as before.
C13_DeliveryFailureUnregisters ==
    [][\A d \in DeviceIds :
         send_next_command_raises(d)
         => /\ d \notin DOMAIN device_status'
            /\ d \notin DOMAIN device_sockets'
            /\ d \notin DOMAIN device_queues'
            /\ execute_command' = execute_command
            /\ \A b \in DeviceIds \ {d} :
                   /\ (b \in DOMAIN device_status') = (b \in DOMAIN device_status)
                   /\ (b \in DOMAIN device_queues') = (b \in DOMAIN device_queues)
                   /\ (b \in DOMAIN device_sockets') = (b \in DOMAIN device_sockets)
                   /\ (b \in DOMAIN device_status => device_status'[b] = device_status[b])
                   /\ (b \in DOMAIN device_queues => device_queues'[b] = device_queues[b])
                   /\ (b \in DOMAIN device_sockets => device_sockets'[b] = device_sockets[b])]_vars

\* The command_ids of the add_command events that appended a command to a
\* queue (the "Command added" answer is emitted in the step that appends).
Appended ==
    {controller_inbox[i].command_id :
        i \in {k \in DOMAIN controller_inbox : controller_inbox[k].status = "Command added"}}

\* C14: send_command returns a command_id exactly for the submissions that
\* were appended to a queue, the id it returns is the one that was enqueued
\* (the n-th add_command draws command_id n), the ids returned are pairwise
\* distinct, and every command_id emitted to a worker was returned for a
\* submission.
C14_IdReturnedIffAppended ==
    /\ \A n \in DOMAIN send_command_returned :
           /\ (send_command_returned[n] # None) <=> (n \in Appended)
           /\ (n \in Appended) => send_command_returned[n] = n
    /\ \A m, n \in DOMAIN send_command_returned :
           (m # n /\ send_command_returned[m] # None)
               => send_command_returned[m] # send_command_returned[n]
    /\ \A i \in DOMAIN execute_command :
           \E n \in DOMAIN send_command_returned :
               send_command_returned[n] = execute_command[i].command_id

\* What the server holds for device b: its status, queue and socket entries
\* (None where there is no entry) and the emissions to b awaiting a result.
WorkerState(b) ==
    <<IF b \in DOMAIN device_status THEN <<device_status[b]>> ELSE <<>>,
      IF b \in DOMAIN device_queues THEN <<device_queues[b]>> ELSE <<>>,
      IF b \in DOMAIN device_sockets THEN <<device_sockets[b]>> ELSE <<>>,
      {o \in outstanding : o.device_id = b}>>

\* The connections an emission is written to.
ReceivedBy(e) == IF e.sid = Broadcast THEN DOMAIN connections ELSE {e.sid}

\* A step of either server that is an event of device a.
EventOf(a) ==
    \/ handle_connect(a)
    \/ \E sid \in DOMAIN connections : connections[sid] = a /\ handle_disconnect(sid)
    \/ \E number \in DOMAIN device_connection_order_dict :
           device_connection_order_dict[number] = a /\ handle_add_command(number)
    \/ \E data \in ResultMessages :
           data.device_id = a /\ handle_command_result(a, data.command_id)
    \/ send_next_command_step(a)
    \/ send_next_command_raises(a)
    \/ legacy_handle_connect(a)
    \/ \E sid \in DOMAIN connections : connections[sid] = a /\ legacy_handle_disconnect(sid)
    \/ legacy_add_command(a)
    \/ \E data \in ResultMessages :
           data.device_id = a /\ legacy_handle_command_result(a, data.command_id)
    \/ legacy_send_next_command(a)

\* C15: an event of device a leaves what the server holds for every other
\* device as it was, and a command emitted for a is written to connections of
\* a only.
C15_OtherWorkersUntouched ==
    [][\A a \in DeviceIds :
         EventOf(a)
         => /\ \A b \in DeviceIds \ {a} : WorkerState(b)' = WorkerState(b)
            /\ \A i \in DOMAIN execute_command' \ DOMAIN execute_command :
                   \A s \in ReceivedBy(execute_command'[i]) : connections[s] = a]_vars

C18_ReadyAfterResult ==
    [][\A data \in ResultMessages :
         ( \/ legacy_handle_command_result(data.device_id, data.command_id)
           \/ handle_command_result(data.device_id, data.command_id) )
         => /\ data.device_id \in DOMAIN device_status'
            /\ device_status'[data.device_id] = "ready"]_vars

\* C19: every POST /add_command is answered 200 and puts exactly one entry
\* (device_id, command) on the global command_queue.
C19_PutOnCommandQueue ==
    [][\A d \in DeviceIds :
         legacy_add_command(d)
         => /\ controller_inbox'[Len(controller_inbox')].event = "200"
            /\ command_queue' = Append(command_queue, <<d, [device_id |-> d]>>)]_vars

\* Only worker "a" has connected, once, and every add_command was accepted
\* (they all carried its number): the n-th command submitted has command_id n.
InScenario ==
    /\ welcomed = [s \in {next_sid} |-> TestDevice]
    /\ Appended = 1..issued

\* C20: in the scenario (a connects; P1, P2, P3 are submitted for a; a reports
\* P1; a disconnects; a late result for P2 arrives) the commands are emitted
\* to a in the order submitted, each one only after the result of the one
\* before it has been matched, and a result arriving after the disconnect
\* changes nothing.
C20_ScenarioDeliveries ==
    [][InScenario'
         => /\ \A i \in DOMAIN execute_command' :
                   /\ execute_command'[i].device_id = TestDevice
                   /\ execute_command'[i].command_id = i
            /\ Len(execute_command') <= Cardinality(matched_results') + 1
            /\ \A data \in ResultMessages :
                   ( /\ handle_command_result(data.device_id, data.command_id)
                     /\ data.device_id = TestDevice
                     /\ data.command_id \in EmittedIds
                     /\ TestDevice \notin DOMAIN device_sockets )
                   => UNCHANGED <<device_status, device_queues, device_sockets>>]_vars

\* The emissions to the connection d is registered with that await a result.
OutstandingOfSession(d) ==
    {o \in outstanding : /\ o.device_id = d
                         /\ d \in DOMAIN device_sockets
                         /\ o.sid = device_sockets[d]}

\* C21: a call of send_next_command that takes a command from d's queue finds
\* d 'ready', emits that command to d and leaves d 'busy', all in that step.
C21_DequeueOnlyByDispatch ==
    [][\A d \in DeviceIds :
         (send_next_command_step(d) /\ can_take(d))
         => /\ d \in DOMAIN device_status
            /\ device_status[d] = "ready"
            /\ Len(execute_command') = Len(execute_command) + 1
            /\ execute_command'[Len(execute_command')].command_id
                   = get_head(device_queues[d])[1]
            /\ d \in DOMAIN device_status'
            /\ device_status'[d] = "busy"]_vars

\* C22: a connected worker that is 'ready' and has a non-empty queue has a
\* call of send_next_command under way (so that, the call being scheduled,
\* the state does not last).
C22_ReadyWithWorkIsDispatched ==
    \A d \in DOMAIN device_status :
        ( /\ device_status[d] = "ready"
          /\ \E s \in DOMAIN connections : connections[s] = d
          /\ can_take(d) )
        => pending[d] > 0

\* C23: the handler of a matching result for a 'busy' worker leaves it 'ready'
\* and calls send_next_command for it; that call, run for a registered worker,
\* emits the head of the queue and leaves the worker 'busy' if the queue is
\* non-empty, and changes neither status nor queue if it is empty.
C23_ResultThenDispatch ==
    [][\A d \in DeviceIds :
         /\ \A data \in ResultMessages :
                ( /\ handle_command_result(d, data.command_id)
                  /\ data.device_id = d
                  /\ d \in DOMAIN device_status
                  /\ device_status[d] = "busy"
                  /\ MatchesOutstanding(data) )
                => /\ device_status'[d] = "ready"
                   /\ pending'[d] = pending[d] + 1
                   /\ \A o \in outstanding' :
                          ~(o.device_id = d /\ o.command_id = data.command_id)
         /\ (send_next_command_step(d) /\ d \in DOMAIN device_sockets)
                => IF can_take(d)
                   THEN /\ execute_command' = Append(execute_command,
                               [sid |-> device_sockets[d], device_id |-> d,
                                command_id |-> get_head(device_queues[d])[1]])
                        /\ device_queues'[d] = get_rest(device_queues[d])
                        /\ device_status'[d] = "busy"
                   ELSE UNCHANGED <<device_status, device_queues, execute_command>>]_vars

\* A matching result has been handled and the command queued behind it has
\* then been emitted to the same connection, leaving the worker 'busy'.
C23_Witness ==
    \E i, j \in DOMAIN execute_command :
        /\ i < j
        /\ execute_command[i].sid = execute_command[j].sid
        /\ execute_command[i].command_id \in matched_results
        /\ execute_command[j] \in outstanding
        /\ device_status[execute_command[j].device_id] = "busy"
        /\ pending[execute_command[j].device_id] = 0

\* C24: no command_id is emitted twice, and a 'busy' worker stays 'busy' in
\* every step that is neither the handling of a result naming it nor the
\* disconnect of a connection of it.
C24_NoRedeliveryBusyStays ==
    [][/\ \A i, j \in DOMAIN execute_command' :
              execute_command'[i].command_id = execute_command'[j].command_id => i = j
       /\ \A d \in DOMAIN device_status :
              ( /\ device_status[d] = "busy"
                /\ ~ \E data \in ResultMessages :
                        data.device_id = d /\ handle_command_result(d, data.command_id)
                /\ ~ \E sid \in DOMAIN connections :
                        connections[sid] = d /\ handle_disconnect(sid) )
              => /\ d \in DOMAIN device_status'
                 /\ device_status'[d] = "busy"]_vars

\* C27: a registered device is 'busy' exactly when one command emitted to its
\* current connection awaits its result, and has none awaiting when 'ready'.
C27_BusyIffOneOutstanding ==
    \A d \in DOMAIN device_status :
        /\ (device_status[d] = "busy") <=> (Cardinality(OutstandingOfSession(d)) = 1)
        /\ (device_status[d] = "ready") => (OutstandingOfSession(d) = {})

\* C28: device_status and device_sockets have the same keys, which are the
\* device ids of the live worker connections, and every key of device_queues
\* is one of them.
C28_MapsConsistent ==
    /\ DOMAIN device_status = DOMAIN device_sockets
    /\ DOMAIN device_status = {connections[s] : s \in DOMAIN connections} \ {Orchestrator}
    /\ DOMAIN device_queues \subseteq DOMAIN device_status

\* C29: every add_command event has been answered by exactly one
\* 'command_status' event, also when the send_next_command it called raised.
C29_OneAckPerAddCommand ==
    /\ Len(controller_inbox) = issued
    /\ \A i \in DOMAIN controller_inbox : controller_inbox[i].event = "command_status"

\* The connections of workers whose handle_connect has returned.
RegisteredConnections == {s \in DOMAIN welcomed : welcomed[s] # Orchestrator}

\* C25: the handlers' reads and writes of the registry and of the connection
\* counter do not interleave: workers that connect at the same time get
\* distinct numbers, so every worker whose connect has returned holds one.
C25_ConnectsSerialized ==
    \A s \in RegisteredConnections :
        \E number \in DOMAIN device_connection_order_dict :
            device_connection_order_dict[number] = welcomed[s]

\* C26: while a command is being written to one worker's connection, a call
\* of send_next_command that has a command to write to another worker's
\* connection can run.
C26_DispatchDoesNotWait ==
    \A e \in lock :
        \A a \in DeviceIds \ {e.device_id} :
            (pending[a] > 0 /\ has_command_to_emit(a) /\ device_sockets[a] # e.sid)
                => ENABLED concurrent_send_next_command(a)

\* C30: the client handles one command at a time. The results sent are, in
\* order, the results of the commands received, each with its command's id
\* and the device_id the client connected under; at most the last command
\* received is without a result (it is being handled, or an exit cut its
\* handling short); the next message is read only when every command so far
\* has its result sent and its wait done; stop_collectors runs once, when the
\* loop is left, and not before.
C30_OneCommandAtATime ==
    /\ Len(client.sent) <= Len(client.received)
    /\ Len(client.received) <= Len(client.sent) + 1
    /\ \A i \in 1..Len(client.sent) :
           /\ client.sent[i].command_id = client.received[i]
           /\ client.sent[i].device_id = client.connected_as
    /\ client.pc = "recv" =>
           /\ Len(client.sent) = Len(client.received)
           /\ client.waited = Len(client.sent)
    /\ client.pc = "wait" => client.waited + 1 = Len(client.sent)
    /\ client.stopped = (IF client.pc = "done" THEN 1 ELSE 0)

\* Two commands were handled, then the loop was left.
C30_Witness ==
    /\ client.pc = "done"
    /\ client.stopped = 1
    /\ Len(client.sent) = 2
    /\ client.waited = 2
    /\ client.sent[1].command_id # client.sent[2].command_id

====
